---- MODULE Spec2Model ----
(***************************************************************************)
(* Model of the PPT generator service: the HTTP boundary (src/app.py) and  *)
(* the rendering routine generate_competitive_analysis_ppt                 *)
(* (src/scripts/generate_ppt.py).                                          *)
(*                                                                         *)
(* One POST /generate-ppt/ request is followed through its steps: receive  *)
(* and parse the upload, load and validate inside the renderer, one step   *)
(* per slide template call, the save, and the mapping of the outcome to an *)
(* HTTP response.  GET /download/{filename} is one step.                   *)
(*                                                                         *)
(* Spec follows one POST of any upload; SpecService a sequence of POSTs    *)
(* of a few uploads; SpecCore a direct call of the rendering routine with  *)
(* any kind of output path; SpecConc two saves to the same file running    *)
(* side by side; SpecTemplates single calls of the Comparison, Summary     *)
(* and Content templates.                                                  *)
(***************************************************************************)
EXTENDS Integers, Sequences, FiniteSets, TLC

\* ------------------------------------------------------------------ bounds
\* Longest apps list of an uploaded report.
MaxApps == 2
\* Most environment failures (network, image, library, disk) in one behaviour.
MaxFaults == 1

\* --------------------------------------------------------------- inputs
Names == {"a", "b"}
\* app.get('logo', None): a missing logo and an empty one are both falsy.
NoLogo == ""
Logos == {NoLogo, "http://logo"}
Truthy(s) == s # ""

\* One entry of report['apps'].  count: whether reviews.count is supplied;
\* every other nested field of the entry is supplied.
\* Entries without reviews.count are represented by one entry.
Apps ==
    {x \in [name : Names, logo : Logos, count : BOOLEAN] :
        x.count \/ (x.name = "a" /\ x.logo = NoLogo)}

AppLists == UNION {[1..n -> Apps] : n \in 0..MaxApps}

TopKeys == {"title", "date", "apps", "summary"}

\* The JSON type of data['apps']: a list, null, or an object without keys.
AppsShapes == {"list", "null", "object"}

\* The parsed JSON value.  shape: the JSON type of the top-level value;
\* keys: the top-level keys of an object; appsShape, apps: the type of
\* data['apps'] and its entries; summaryOk: data['summary'] holds the
\* three lists the Summary template reads.
Objects ==
    {[shape |-> "object", keys |-> k, appsShape |-> t, apps |-> a, summaryOk |-> s] :
        k \in SUBSET TopKeys, t \in AppsShapes, a \in AppLists, s \in BOOLEAN}

Reports ==
    {v \in Objects :
        /\ ("apps" \notin v.keys => v.apps = <<>> /\ v.appsShape = "list")
        /\ (v.appsShape # "list" => v.apps = <<>>)
        /\ ("summary" \notin v.keys => v.summaryOk)}

NonObjects ==
    {[shape |-> sh, keys |-> {}, appsShape |-> "list", apps |-> <<>>,
      summaryOk |-> TRUE] :
        sh \in {"array", "number"}}

NoValue ==
    [shape |-> "none", keys |-> {}, appsShape |-> "list", apps |-> <<>>,
     summaryOk |-> TRUE]

\* The uploaded bytes.  enc: how the bytes decode ("invalid": not decodable
\* as UTF-8/16/32); syntax: whether the decoded text is JSON.
Uploads ==
    {[enc |-> e, syntax |-> "garbage", value |-> NoValue] :
        e \in {"utf8", "invalid"}}
    \cup {[enc |-> e, syntax |-> "json", value |-> v] :
        e \in {"utf8", "utf16"}, v \in Reports \cup NonObjects}

\* No template call is under study.
NoCall == [template |-> "", slide_width |-> 0, apps_data |-> <<>>, content |-> <<>>]

\* ------------------------------------------------------------ constants
OutputName == "data_analysis.pptx"
\* The kinds of output_file: "nested": a path whose directory exists;
\* "missing": a path whose directories do not exist yet; "bare": a file name
\* without directory component.
PathKinds == {"nested", "missing", "bare"}
\* os.path.join(STORAGE_DIR, output_filename): STORAGE_DIR was created
\* when the service started.
OutputPath == "nested"
FileNames == {OutputName, "nonexistent.pptx"}

\* Mutant: the validation forgets one required field.
RequiredFieldsNoApps == {"title", "date"}

RequiredFields == {"title", "date", "apps"}

\* ---------------------------------------------------------------- state
VARIABLES
    inbox,      \* uploads the client has yet to POST
    pc,         \* position of the request handler
    req,        \* <<upload>> of the request being (or last) handled
    genCalled,  \* generate_competitive_analysis_ppt was invoked for req
    deck,       \* prs.slides of the render in progress
    appIdx,     \* index into data['apps'] of the app being rendered
    slot,       \* which of the app's three content slides comes next
    exc,        \* the exception generate raised, NoExc if none
    stored,     \* STORAGE_DIR/data_analysis.pptx: <<>> or <<file>>
    tmp,        \* per-fetch temporary directories present on disk
    fetchLog,   \* the logo fetches of the render in progress, in order
    faults,     \* environment failures so far
    resp,       \* the last HTTP response sent
    log,        \* the POST exchanges completed so far, oldest first
    outPath,    \* the kind of output_file handed to generate
    writers,    \* the prs.save calls of renders running side by side
    disk,       \* the blocks of the output file those saves write
    call,       \* the template call under study: template and arguments
    boxes,      \* the boxes the template added to the slide, in order
    lines,      \* the paragraphs the template added to the text box
    served      \* the file streamed by the last response, <<>> if it carried none

vars == <<inbox, pc, req, genCalled, deck, appIdx, slot, exc, stored, tmp,
          fetchLog, faults, resp, log, outPath, writers, disk, call, boxes,
          lines, served>>

NoExc == [kind |-> "none", msg |-> "", fields |-> {}]
NoResp == [route |-> "", arg |-> "", status |-> 0, detail |-> <<>>, file_path |-> ""]

Report == req[1].value

\* A slide of the deck.  complete: the template ran to its end (a template
\* that raises leaves the slide it already appended, partly populated).
Slide(kind, app, layout, complete) ==
    [kind |-> kind, app |-> app, layout |-> layout, complete |-> complete]

\* A file stored under the output name.  size: "full" after a completed
\* save, "truncated" after a save that failed while writing.
File(d, size) == [deck |-> d, size |-> size]

\* An artifact a previous run of the service left in the storage directory:
\* the document of a report with no apps and no summary.
OldFile ==
    File(<<Slide("Title", "", "", TRUE), Slide("Ending", "", "", TRUE)>>, "full")

ValueError(msg, fields) == [kind |-> "ValueError", msg |-> msg, fields |-> fields]
RuntimeError(msg) == [kind |-> "RuntimeError", msg |-> msg, fields |-> {}]

\* One HTTP exchange: the route and its path parameter, and the answer.
Response(route, arg, status, detail, path) ==
    [route |-> route, arg |-> arg, status |-> status, detail |-> detail,
     file_path |-> path]

\* A detail string is a sequence of its parts; Contains is Python's `in`.
Contains(detail, part) == \E i \in 1..Len(detail) : detail[i] = part

Cost(failed) == IF failed THEN 1 ELSE 0

\* One completed POST exchange: the upload, the status answered, the
\* document the render produced (<<>> unless 200) and, per logo fetch of the
\* render, whether an image was obtained and embedded.
LogEntry(u, r, d, fetches) ==
    [upload |-> u, status |-> r.status,
     doc |-> IF r.status = 200 THEN d ELSE <<>>,
     fetched |-> [i \in 1..Len(fetches) |-> fetches[i].embedded]]

\* ------------------------------------------------ POST /generate-ppt/
\* json.loads(content) on the uploaded bytes.
json_loads(u) ==
    IF u.enc = "invalid" THEN "UnicodeDecodeError"
    ELSE IF u.syntax = "garbage" THEN "JSONDecodeError"
    ELSE "ok"

\* The validation block of the handler: json.loads, then the logging of
\* json_content.items(), which only an object has.
ParseUpload(u) ==
    IF json_loads(u) # "ok" THEN json_loads(u)
    ELSE IF u.value.shape # "object" THEN "AttributeError"
    ELSE "ok"

\* The response of the handler when the upload does not get to generate.
RejectUpload(parsed, writeFailed) ==
    IF parsed = "JSONDecodeError"
    THEN Response("generate-ppt", "", 400, <<"Invalid JSON file", parsed>>, "")
    ELSE IF parsed # "ok"
    THEN Response("generate-ppt", "", 500, <<"Unexpected error", parsed>>, "")
    ELSE IF writeFailed
    THEN Response("generate-ppt", "", 500, <<"Error writing temporary file">>, "")
    ELSE NoResp

\* The handler up to the call of generate: read, validate JSON, write the
\* temporary input file, choose the output path.
PostReceive ==
    /\ pc = "idle"
    /\ inbox # <<>>
    /\ \E writeFailed \in BOOLEAN :
        LET u == Head(inbox)
            parsed == ParseUpload(u)
            rejected == RejectUpload(parsed, writeFailed)
        IN  /\ writeFailed => parsed = "ok"
            /\ faults + Cost(writeFailed) <= MaxFaults
            /\ faults' = faults + Cost(writeFailed)
            /\ inbox' = Tail(inbox)
            /\ req' = <<u>>
            /\ genCalled' = FALSE
            /\ exc' = NoExc
            /\ deck' = <<>>
            /\ fetchLog' = <<>>
            /\ appIdx' = 1
            /\ slot' = 1
            /\ IF rejected # NoResp
               THEN /\ pc' = "idle"
                    /\ resp' = rejected
                    /\ log' = Append(log, LogEntry(u, rejected, <<>>, <<>>))
               ELSE /\ pc' = "generate"
                    /\ resp' = NoResp
                    /\ log' = log
            /\ served' = <<>>
            /\ UNCHANGED <<stored, tmp, outPath, writers, disk, call, boxes, lines>>

\* ------------------------------------- generate_competitive_analysis_ppt
\* open(input_file, encoding='utf-8') and json.load: the file holds the
\* uploaded bytes, read here as UTF-8 only.
LoadInput(u) == u.enc = "utf8" /\ u.syntax = "json"

\* Mutant: the validation also rejects apps that is not a list.
MissingFieldsTyped(v) ==
    (RequiredFields \ v.keys)
        \cup (IF "apps" \in v.keys /\ v.appsShape # "list" THEN {"apps"} ELSE {})

\* [field for field in required_fields if field not in data]
MissingFields(v) == RequiredFields \ v.keys

\* Mutant: a failed step is logged and the render goes on.
ContinueAlways(failed, next) == next

\* What a failed step does to the control flow: the raise leaves generate.
Continue(failed, next) == IF failed THEN "respond" ELSE next

\* Load, validate the required fields, create the presentation.
GenLoad ==
    /\ pc = "generate"
    /\ genCalled' = TRUE
    /\ \E createFailed \in BOOLEAN :
        LET u == req[1]
            loadFailed == ~LoadInput(u)
            missing == MissingFields(u.value)
            validated == ~loadFailed /\ missing = {}
        IN  /\ createFailed => validated
            /\ faults + Cost(createFailed) <= MaxFaults
            /\ faults' = faults + Cost(createFailed)
            /\ exc' = IF loadFailed
                      THEN ValueError("Failed to load input file", {})
                      ELSE IF missing # {}
                      THEN ValueError("Missing required fields in input data", missing)
                      ELSE IF createFailed
                      THEN RuntimeError("Failed to create presentation")
                      ELSE NoExc
            /\ pc' = Continue(~validated \/ createFailed, "title")
    /\ UNCHANGED <<inbox, req, deck, appIdx, slot, stored, tmp, fetchLog, resp, log,
                   outPath, writers, disk, call, boxes, lines, served>>

\* add_title_slide(prs, data['title'], data['date']): the subscripts are
\* evaluated before the call; the template appends the slide first.
AddTitle ==
    /\ pc = "title"
    /\ \E libFailed \in BOOLEAN :
        LET keyError == ~({"title", "date"} \subseteq Report.keys)
            failed == keyError \/ libFailed
        IN  /\ libFailed => ~keyError
            /\ faults + Cost(libFailed) <= MaxFaults
            /\ faults' = faults + Cost(libFailed)
            /\ deck' = IF keyError THEN deck
                       ELSE Append(deck, Slide("Title", "", "", ~libFailed))
            /\ exc' = IF failed THEN RuntimeError("Failed to add title slide") ELSE exc
            /\ pc' = Continue(failed, "apps")
    /\ UNCHANGED <<inbox, req, genCalled, appIdx, slot, stored, tmp, fetchLog, resp, log,
                   outPath, writers, disk, call, boxes, lines, served>>

\* iter(data['apps']): null is not iterable; an object iterates its keys.
Iterable(shape) == shape # "null"

\* for app in data['apps']: the next app, or the end of the loop.
AppsLoop ==
    /\ pc = "apps"
    /\ LET keyError == "apps" \notin Report.keys
           typeError == ~keyError /\ ~Iterable(Report.appsShape)
           failed == keyError \/ typeError
       IN  /\ exc' = IF failed THEN RuntimeError("Failed to process app data") ELSE exc
           /\ pc' = Continue(failed,
                        IF appIdx <= Len(Report.apps) THEN "header" ELSE "summary")
    /\ UNCHANGED <<inbox, req, genCalled, deck, appIdx, slot, stored, tmp,
                   fetchLog, faults, resp, log, outPath, writers, disk,
                   call, boxes, lines, served>>

\* ------------------------------------------- logo fetch and templates
\* How one call of download_and_convert_image ends: "neterr": requests.get
\* raises a connection error or timeout; "sslerr": requests.get raises
\* SSLError; "httperr": raise_for_status raises; "undecodable": Image.open
\* raises; "encfail": img.save raises; "ok": the PNG is written.
FetchOutcomes == {"ok", "neterr", "sslerr", "httperr", "undecodable", "encfail"}
FetchFailures == FetchOutcomes \ {"ok"}

None == "None"

\* Mutant: the output path is returned whether or not the PNG was written.
download_and_convert_image_unchecked(outcome) ==
    [path |-> "converted.png",
     files |-> IF outcome \in {"neterr", "sslerr", "httperr"} THEN {} ELSE {"original"},
     requests |-> 1]

\* download_image: the routine with the retry.  first, retry: how its two
\* requests.get calls end; the retry is made only after an SSLError of the
\* first.  No template calls it.
download_image(first, retry) ==
    [path |-> IF first = "ok" \/ (first = "sslerr" /\ retry = "ok")
              THEN "image" ELSE None,
     requests |-> IF first = "sslerr" THEN 2 ELSE 1]

\* Mutant: the retry of download_image carried over, the second request
\* failing like the first.
download_and_convert_image_retry(outcome) ==
    [path |-> IF outcome = "ok" THEN "converted.png" ELSE None,
     files |-> CASE outcome \in {"neterr", "sslerr", "httperr"} -> {}
                 [] outcome \in {"undecodable", "encfail"} -> {"original"}
                 [] OTHER -> {"original", "converted.png"},
     requests |-> download_image(outcome, outcome).requests]

\* download_and_convert_image: every exception is caught and None returned.
\* path: the value returned; files: what the call leaves in the directory
\* it created with mkdtemp; requests: the requests.get calls made (one,
\* with verify=False, whatever its result).
download_and_convert_image(outcome) ==
    [path |-> IF outcome = "ok" THEN "converted.png" ELSE None,
     files |-> CASE outcome \in {"neterr", "sslerr", "httperr"} -> {}
                 [] outcome \in {"undecodable", "encfail"} -> {"original"}
                 [] OTHER -> {"original", "converted.png"},
     requests |-> 1]

TempDir(id, files) == [id |-> id, files |-> files]

\* The temporary directories a template leaves behind: both templates
\* delete the directory only after add_picture has returned.
TmpLeft(id, fetched, result, embedded) ==
    IF fetched /\ ~embedded THEN {TempDir(id, result.files)} ELSE {}

\* Mutant: the header layout depends on what an earlier render left in the
\* storage directory.
HeaderLayoutFromDisk(hasLogo) == IF hasLogo /\ stored = <<>> THEN "image" ELSE "noimage"

\* add_app_header_slide: the logo box and picture are placed iff the fetch
\* returned an existing path.
HeaderLayout(hasLogo) == IF hasLogo THEN "image" ELSE "noimage"

\* Mutant: a content slide takes its layout from the fetch made before its
\* own.
ContentLayoutFromEarlier(embedded) ==
    IF Len(fetchLog) > 0 /\ fetchLog[Len(fetchLog)].outcome = "ok"
    THEN "image" ELSE "noimage"

\* add_content_slide: title_width is narrowed only after add_picture.
ContentLayout(embedded) == IF embedded THEN "image" ELSE "noimage"

FetchEntry(id, app, outcome, result, embedded) ==
    [slide |-> id, app |-> app.name, outcome |-> outcome, embedded |-> embedded,
     requests |-> result.requests]

\* add_app_header_slide(prs, app['name'], app.get('logo', None)).
\* add_picture is outside any try: its failure leaves the template.
AddHeader ==
    /\ pc = "header"
    /\ LET app == Report.apps[appIdx]
           fetched == Truthy(app.logo)
           id == Len(deck) + 1
       IN \E o \in (IF fetched THEN FetchOutcomes ELSE {"none"}), embedOk \in BOOLEAN :
            LET result == download_and_convert_image(o)
                hasLogo == fetched /\ result.path # None
                embedded == hasLogo /\ embedOk
                raised == hasLogo /\ ~embedOk
            IN  /\ ~embedOk => hasLogo
                /\ faults + Cost(o \in FetchFailures) + Cost(~embedOk) <= MaxFaults
                /\ faults' = faults + Cost(o \in FetchFailures) + Cost(~embedOk)
                /\ deck' = Append(deck,
                              Slide("Header", app.name, HeaderLayout(hasLogo), ~raised))
                /\ tmp' = tmp \cup TmpLeft(id, fetched, result, embedded)
                /\ fetchLog' = IF fetched
                               THEN Append(fetchLog, FetchEntry(id, app, o, result, embedded))
                               ELSE fetchLog
                /\ exc' = IF raised THEN RuntimeError("Failed to process app data") ELSE exc
                /\ pc' = Continue(raised, "content")
    /\ slot' = 1
    /\ UNCHANGED <<inbox, req, genCalled, appIdx, stored, resp, log, outPath, writers, disk,
                   call, boxes, lines, served>>

\* Mutant: the first two content slides are swapped.
ContentKindsSwapped == <<"UX", "Overview", "Review">>

\* The three add_content_slide calls of add_app_analysis_slide, in order.
ContentKinds == <<"Overview", "UX", "Review">>

\* add_content_slide(prs, title, content, app.get('logo', None), app['name']).
\* The content mapping is built before the call: the Overview mapping reads
\* app['reviews']['count'].  The fetch and add_picture are inside one try.
AddContent ==
    /\ pc = "content"
    /\ LET app == Report.apps[appIdx]
           kind == ContentKinds[slot]
           keyError == kind = "Overview" /\ ~app.count
           fetched == ~keyError /\ Truthy(app.logo) /\ Truthy(app.name)
           id == Len(deck) + 1
           last == slot = Len(ContentKinds)
       IN \E o \in (IF fetched THEN FetchOutcomes ELSE {"none"}), embedOk \in BOOLEAN :
            LET result == download_and_convert_image(o)
                hasLogo == fetched /\ result.path # None
                embedded == hasLogo /\ embedOk
            IN  /\ ~embedOk => hasLogo
                /\ faults + Cost(o \in FetchFailures) + Cost(~embedOk) <= MaxFaults
                /\ faults' = faults + Cost(o \in FetchFailures) + Cost(~embedOk)
                /\ deck' = IF keyError THEN deck
                           ELSE Append(deck,
                                   Slide(kind, app.name, ContentLayout(embedded), TRUE))
                /\ tmp' = tmp \cup TmpLeft(id, fetched, result, embedded)
                /\ fetchLog' = IF fetched
                               THEN Append(fetchLog, FetchEntry(id, app, o, result, embedded))
                               ELSE fetchLog
                /\ exc' = IF keyError THEN RuntimeError("Failed to process app data") ELSE exc
                /\ pc' = Continue(keyError, IF last THEN "apps" ELSE "content")
                /\ slot' = IF keyError THEN slot ELSE IF last THEN 1 ELSE slot + 1
                /\ appIdx' = IF last /\ ~keyError THEN appIdx + 1 ELSE appIdx
    /\ UNCHANGED <<inbox, req, genCalled, stored, resp, log, outPath, writers, disk, call,
                   boxes, lines, served>>

\* if 'summary' in data: add_summary_slide(prs, data['summary']).  The
\* template appends the slide, then reads the three lists of the summary.
AddSummary ==
    /\ pc = "summary"
    /\ LET present == "summary" \in Report.keys
           failed == present /\ ~Report.summaryOk
       IN  /\ deck' = IF present
                      THEN Append(deck, Slide("Summary", "", "", ~failed))
                      ELSE deck
           /\ exc' = IF failed THEN RuntimeError("Failed to add summary slide") ELSE exc
           /\ pc' = Continue(failed, "ending")
    /\ UNCHANGED <<inbox, req, genCalled, appIdx, slot, stored, tmp, fetchLog,
                   faults, resp, log, outPath, writers, disk, call,
                   boxes, lines, served>>

\* add_ending_slide(prs).
AddEnding ==
    /\ pc = "ending"
    /\ \E libFailed \in BOOLEAN :
        /\ faults + Cost(libFailed) <= MaxFaults
        /\ faults' = faults + Cost(libFailed)
        /\ deck' = Append(deck, Slide("Ending", "", "", ~libFailed))
        /\ exc' = IF libFailed THEN RuntimeError("Failed to add ending slide") ELSE exc
        /\ pc' = Continue(libFailed, "save")
    /\ UNCHANGED <<inbox, req, genCalled, appIdx, slot, stored, tmp, fetchLog, resp, log,
                   outPath, writers, disk, call, boxes, lines, served>>

\* How os.makedirs + prs.save end: "ok"; "denied": the directory or the
\* file cannot be opened; "partial": the write fails after the file was
\* opened for writing.
SaveOutcomes == {"ok", "denied", "partial"}

\* Mutant: the save block lets the OSError of the write through.
SaveErrorUnwrapped == [kind |-> "OSError", msg |-> "No space left on device", fields |-> {}]

\* The exception the save block raises for any failure of its two calls.
SaveError == RuntimeError("Failed to save presentation")

\* The file under the output name after the save block.
Saved(old, d, outcome) ==
    CASE outcome = "ok" -> <<File(d, "full")>>
      [] outcome = "partial" -> <<File(d, "truncated")>>
      [] OTHER -> old

\* os.makedirs(os.path.dirname(output_file), exist_ok=True): the dirname of
\* a bare file name is '', which makedirs cannot create.
makedirs(path) == IF path = "bare" THEN "FileNotFoundError" ELSE "ok"

Save ==
    /\ pc = "save"
    /\ \E outcome \in SaveOutcomes :
        LET noDir == makedirs(outPath) # "ok"
            fault == ~noDir /\ outcome # "ok"
        IN  /\ noDir => outcome = "denied"
            /\ faults + Cost(fault) <= MaxFaults
            /\ faults' = faults + Cost(fault)
            /\ stored' = Saved(stored, deck, outcome)
            /\ exc' = IF outcome # "ok" THEN SaveError ELSE exc
    /\ pc' = "respond"
    /\ UNCHANGED <<inbox, req, genCalled, deck, appIdx, slot, tmp, fetchLog, resp, log,
                   outPath, writers, disk, call, boxes, lines, served>>

\* The handler after generate: any exception becomes 500; otherwise the
\* output file is checked and named in the 200 response.
GenerateResponse(e, file) ==
    IF e # NoExc
    THEN Response("generate-ppt", "", 500, <<"Error generating PPT", e.msg>>, "")
    ELSE IF file = <<>>
    THEN Response("generate-ppt", "", 500, <<"Generated file not found">>, "")
    ELSE IF file[1].size = "empty"
    THEN Response("generate-ppt", "", 500, <<"Generated file is empty">>, "")
    ELSE Response("generate-ppt", "", 200, <<>>, OutputName)

\* The locals of generate (the presentation, the loop position, the
\* exception) are gone once the handler has answered.
Respond ==
    /\ pc = "respond"
    /\ resp' = GenerateResponse(exc, stored)
    /\ log' = Append(log, LogEntry(req[1], resp', deck, fetchLog))
    /\ pc' = "idle"
    /\ deck' = <<>>
    /\ fetchLog' = <<>>
    /\ appIdx' = 1
    /\ slot' = 1
    /\ exc' = NoExc
    /\ served' = <<>>
    /\ UNCHANGED <<inbox, req, genCalled, stored, tmp, faults, outPath, writers,
                   disk, call, boxes, lines>>

\* ------------------------------------------- GET /download/{filename}
Exists(filename) == filename = OutputName /\ stored # <<>>

\* The HTTPException(404) is raised inside the try block whose
\* `except Exception` turns every exception into a 500.
DownloadResponse(filename, exists) ==
    IF exists
    THEN Response("download", filename, 200, <<>>, filename)
    ELSE Response("download", filename, 500,
                  <<"Error downloading file", "404", "File not found">>, "")

\* FileResponse(file_path): the file as it is stored when the download is
\* answered.  request: the POST exchange whose response named the file to
\* the downloading client, 0 if the client follows none.
Served(request, filename) ==
    IF Exists(filename) THEN <<[request |-> request, file |-> stored[1]]>> ELSE <<>>

\* A client asks for any file name, or for the file_path of a 200 response
\* it received to an earlier POST.
Download ==
    /\ pc = "idle"
    /\ \E filename \in FileNames, request \in 0..Len(log) :
        /\ request > 0 => log[request].status = 200 /\ filename = OutputName
        /\ resp' = DownloadResponse(filename, Exists(filename))
        /\ served' = Served(request, filename)
    /\ UNCHANGED <<inbox, pc, req, genCalled, deck, appIdx, slot, exc, stored,
                   tmp, fetchLog, faults, log, outPath, writers, disk,
                   call, boxes, lines>>

\* ------------------------------------------------------ specification
Init ==
    /\ inbox \in {<<u>> : u \in Uploads}
    /\ pc = "idle"
    /\ req = <<>>
    /\ genCalled = FALSE
    /\ deck = <<>>
    /\ appIdx = 1
    /\ slot = 1
    /\ exc = NoExc
    /\ stored \in {<<>>, <<OldFile>>}
    /\ tmp = {}
    /\ fetchLog = <<>>
    /\ faults = 0
    /\ resp = NoResp
    /\ log = <<>>
    /\ outPath = OutputPath
    /\ writers = <<>>
    /\ disk = <<>>
    /\ call = NoCall
    /\ boxes = <<>>
    /\ lines = <<>>
    /\ served = <<>>

Next ==
    \/ PostReceive
    \/ GenLoad
    \/ AddTitle
    \/ AppsLoop
    \/ AddHeader
    \/ AddContent
    \/ AddSummary
    \/ AddEnding
    \/ Save
    \/ Respond
    \/ Download

Spec == Init /\ [][Next]_vars

\* ----------------------------------------------- several requests
\* Most POST requests in one behaviour of the service.
MaxRequests == 2

\* The uploads of the clients of the service: two renderable reports (one
\* app with a logo and a summary; one app without logo, no summary), a
\* report without apps, and bytes that are not JSON.
ReportA ==
    [enc |-> "utf8", syntax |-> "json",
     value |-> [shape |-> "object", keys |-> TopKeys, appsShape |-> "list",
                apps |-> <<[name |-> "a", logo |-> "http://logo", count |-> TRUE]>>,
                summaryOk |-> TRUE]]
ReportB ==
    [enc |-> "utf8", syntax |-> "json",
     value |-> [shape |-> "object", keys |-> {"title", "date", "apps"},
                appsShape |-> "list",
                apps |-> <<[name |-> "b", logo |-> NoLogo, count |-> TRUE]>>,
                summaryOk |-> TRUE]]
ReportNoApps ==
    [enc |-> "utf8", syntax |-> "json",
     value |-> [shape |-> "object", keys |-> {"title", "date"},
                appsShape |-> "list",
                apps |-> <<>>, summaryOk |-> TRUE]]
NotJson == [enc |-> "utf8", syntax |-> "garbage", value |-> NoValue]

ServiceUploads == {ReportA, ReportB, ReportNoApps, NotJson}

\* The service handles its POST requests one after the other (the handler
\* never awaits between reading the upload and answering).
InitService ==
    /\ inbox \in UNION {[1..n -> ServiceUploads] : n \in 1..MaxRequests}
    /\ pc = "idle"
    /\ req = <<>>
    /\ genCalled = FALSE
    /\ deck = <<>>
    /\ appIdx = 1
    /\ slot = 1
    /\ exc = NoExc
    /\ stored \in {<<>>, <<OldFile>>}
    /\ tmp = {}
    /\ fetchLog = <<>>
    /\ faults = 0
    /\ resp = NoResp
    /\ log = <<>>
    /\ outPath = OutputPath
    /\ writers = <<>>
    /\ disk = <<>>
    /\ call = NoCall
    /\ boxes = <<>>
    /\ lines = <<>>
    /\ served = <<>>

SpecService == InitService /\ [][Next]_vars

\* ------------------------------------- generate called on its own
\* generate_competitive_analysis_ppt(input_file, output_file) called by a
\* script: input_file holds one of the uploads, output_file is of any kind.
InitCore ==
    /\ inbox = <<>>
    /\ pc = "generate"
    /\ req \in {<<u>> : u \in ServiceUploads}
    /\ genCalled = FALSE
    /\ deck = <<>>
    /\ appIdx = 1
    /\ slot = 1
    /\ exc = NoExc
    /\ stored \in {<<>>, <<OldFile>>}
    /\ tmp = {}
    /\ fetchLog = <<>>
    /\ faults = 0
    /\ resp = NoResp
    /\ log = <<>>
    /\ outPath \in PathKinds
    /\ writers = <<>>
    /\ disk = <<>>
    /\ call = NoCall
    /\ boxes = <<>>
    /\ lines = <<>>
    /\ served = <<>>

NextCore ==
    \/ GenLoad
    \/ AddTitle
    \/ AppsLoop
    \/ AddHeader
    \/ AddContent
    \/ AddSummary
    \/ AddEnding
    \/ Save

SpecCore == InitCore /\ [][NextCore]_vars

\* ----------------------------------------- renders side by side
\* Two worker processes of the service have each rendered a deck and reach
\* prs.save(output_file) with the same output_file.  prs.save opens the
\* file for writing, which truncates it, writes the package block by
\* block at its own file position, and closes.
\* Most blocks of one document.
MaxBlocks == 3
Writers == {1, 2}

\* Block i of the document of writer w; Hole: bytes never written.
Block(w, i) == [w |-> w, i |-> i]
Hole == Block(0, 0)
Document(w) == [i \in 1..writers[w].len |-> Block(w, i)]

\* write() at position pos of a file holding the blocks d.
WriteAt(d, pos, b) ==
    [i \in 1..(IF pos > Len(d) THEN pos ELSE Len(d)) |->
        IF i = pos THEN b ELSE IF i <= Len(d) THEN d[i] ELSE Hole]

rest == <<inbox, pc, req, genCalled, deck, appIdx, slot, exc, stored, tmp,
          fetchLog, faults, resp, log, outPath, call, boxes, lines, served>>

\* zipfile.ZipFile(output_file, 'w'): open with truncation.
SaveOpen(w) ==
    /\ writers[w].pc = "ready"
    /\ writers' = [writers EXCEPT ![w].pc = "writing"]
    /\ disk' = <<>>
    /\ UNCHANGED rest

SaveWrite(w) ==
    /\ writers[w].pc = "writing"
    /\ writers[w].pos < writers[w].len
    /\ writers' = [writers EXCEPT ![w].pos = @ + 1]
    /\ disk' = WriteAt(disk, writers[w].pos + 1, Block(w, writers[w].pos + 1))
    /\ UNCHANGED rest

SaveClose(w) ==
    /\ writers[w].pc = "writing"
    /\ writers[w].pos = writers[w].len
    /\ writers' = [writers EXCEPT ![w].pc = "done"]
    /\ UNCHANGED <<disk, rest>>

InitConc ==
    /\ inbox = <<>>
    /\ pc = "idle"
    /\ req = <<>>
    /\ genCalled = FALSE
    /\ deck = <<>>
    /\ appIdx = 1
    /\ slot = 1
    /\ exc = NoExc
    /\ stored = <<>>
    /\ tmp = {}
    /\ fetchLog = <<>>
    /\ faults = 0
    /\ resp = NoResp
    /\ log = <<>>
    /\ outPath = OutputPath
    /\ writers \in [Writers -> [pc : {"ready"}, pos : {0}, len : 1..MaxBlocks]]
    /\ disk = <<>>
    /\ call = NoCall
    /\ boxes = <<>>
    /\ lines = <<>>
    /\ served = <<>>

NextConc ==
    \/ \E w \in Writers : SaveOpen(w)
    \/ \E w \in Writers : SaveWrite(w)
    \/ \E w \in Writers : SaveClose(w)

SpecConc == InitConc /\ [][NextConc]_vars

\* ------------------------------------------ the templates on their own
\* Most entries of apps_data in a Comparison call.
MaxBoxes == 4
\* Most elements of a list or nested mapping in a content mapping.
MaxItems == 2
\* The keys a content mapping is made of.
Keys == {1, 2}

\* Inches(x) of pptx.util, x given in tenths: int(x * 914400) EMU.
Inches(tenths) == (tenths * 914400) \div 10

\* set_slide_size_to_16x9: the width of every presentation of this code.
slide_width == Inches(160)

\* A coordinate computed with `/ 2` is a float; the shape's XML is written
\* with %d, which drops the fraction.  x2: twice the coordinate.
Emu(x2) == IF x2 >= 0 THEN x2 \div 2 ELSE -((-x2) \div 2)

Box(left, width, text) == [left |-> left, width |-> width, text |-> text]

\* Mutant: the group of boxes starts at the left edge of the canvas.
add_comparison_slide_flush(c, apps_data) ==
    [i \in 1..Len(apps_data) |->
        Box((Inches(45) + Inches(5)) * (i - 1), Inches(45), apps_data[i])]

\* add_comparison_slide: one rounded box per entry of apps_data, holding
\* the app's name.
add_comparison_slide(c, apps_data) ==
    LET box_width == Inches(45)
        gap == Inches(5)
        n == Len(apps_data)
        start_left2 == c - (box_width * n + gap * (n - 1))
    IN  [i \in 1..n |->
            Box(Emu(start_left2 + 2 * (box_width + gap) * (i - 1)), box_width,
                apps_data[i])]

\* add_summary_slide: the three column rectangles, each placed from the
\* left edge of the one before.
add_summary_slide(c) ==
    LET column_width == Inches(45)
        gap == Inches(7)
        total_width == column_width * 3 + gap * 2
        start_left2 == c - total_width
        middle_left2 == start_left2 + 2 * (column_width + gap)
        right_left2 == middle_left2 + 2 * (column_width + gap)
    IN  <<Box(Emu(start_left2), column_width, "data"),
          Box(Emu(middle_left2), column_width, "strengths"),
          Box(Emu(right_left2), column_width, "improvements")>>

\* A JSON value of a content mapping.  A list holds distinct elements, a
\* nested mapping distinct sub-keys, each with its value; a scalar is its
\* one element.  An element is [key, val]; key is <<>> outside a mapping.
Item(key, val) == [key |-> key, val |-> val]
Orders(S) == {q \in UNION {[1..n -> S] : n \in 0..Cardinality(S)} :
                \A i, j \in 1..Len(q) : i # j => q[i] # q[j]}
Value(type, q) == [type |-> type, items |-> q]
Values ==
    {Value("list", [i \in 1..Len(q) |-> Item(<<>>, q[i])]) : q \in Orders(1..MaxItems)}
    \cup {Value("dict", [i \in 1..Len(q) |-> Item(<<q[i]>>, q[i] + MaxItems)]) :
            q \in Orders(1..MaxItems)}
    \cup {Value("scalar", <<Item(<<>>, 1)>>)}

\* content.items(): the keys in mapping order, each with its value.
Mappings ==
    UNION {{[i \in 1..Len(q) |-> [key |-> q[i], value |-> v[i]]] :
                v \in [1..Len(q) -> Values]} : q \in Orders(Keys)}

\* A paragraph of the text box: its text is the bullet (if any), the
\* label followed by a colon (if any) and the text proper (if any).
Line(bullet, label, text, bold, level) ==
    [bullet |-> bullet, label |-> label, text |-> text, bold |-> bold,
     level |-> level]

\* Mutant: the isinstance(value, dict) branch is missing; a nested mapping
\* is printed like a scalar.
ValueLinesNoDict(value) ==
    IF value.type = "list"
    THEN [i \in 1..Len(value.items) |->
            Line(TRUE, <<>>, <<value.items[i].val>>, FALSE, 1)]
    ELSE <<Line(TRUE, <<>>, [i \in 1..Len(value.items) |-> value.items[i].val],
                FALSE, 1)>>

\* The three branches of the loop body of add_content_slide.
ValueLines(value) ==
    CASE value.type = "list" ->
            [i \in 1..Len(value.items) |->
                Line(TRUE, <<>>, <<value.items[i].val>>, FALSE, 1)]
      [] value.type = "dict" ->
            [i \in 1..Len(value.items) |->
                Line(TRUE, value.items[i].key, <<value.items[i].val>>, FALSE, 1)]
      [] OTHER -> <<Line(TRUE, <<>>, <<value.items[1].val>>, FALSE, 1)>>

\* for key, value in content.items(): the header, then the value's lines.
RECURSIVE ContentLines(_)
ContentLines(content) ==
    IF content = <<>> THEN <<>>
    ELSE <<Line(FALSE, <<Head(content).key>>, <<>>, TRUE, 0)>>
         \o ValueLines(Head(content).value)
         \o ContentLines(Tail(content))

Calls ==
    {[template |-> "Comparison", slide_width |-> slide_width, apps_data |-> a,
      content |-> <<>>] : a \in UNION {[1..n -> Names] : n \in 0..MaxBoxes}}
    \cup {[template |-> "Summary", slide_width |-> slide_width,
            apps_data |-> <<>>, content |-> <<>>]}
    \cup {[template |-> "Content", slide_width |-> slide_width,
            apps_data |-> <<>>, content |-> m] : m \in Mappings}

ComparisonSlide ==
    /\ pc = "template"
    /\ call.template = "Comparison"
    /\ boxes' = add_comparison_slide(call.slide_width, call.apps_data)
    /\ pc' = "returned"
    /\ UNCHANGED <<inbox, req, genCalled, deck, appIdx, slot, exc, stored, tmp,
                   fetchLog, faults, resp, log, outPath, writers, disk, call,
                   lines, served>>

SummarySlide ==
    /\ pc = "template"
    /\ call.template = "Summary"
    /\ boxes' = add_summary_slide(call.slide_width)
    /\ pc' = "returned"
    /\ UNCHANGED <<inbox, req, genCalled, deck, appIdx, slot, exc, stored, tmp,
                   fetchLog, faults, resp, log, outPath, writers, disk, call,
                   lines, served>>

ContentSlide ==
    /\ pc = "template"
    /\ call.template = "Content"
    /\ lines' = ContentLines(call.content)
    /\ pc' = "returned"
    /\ UNCHANGED <<inbox, req, genCalled, deck, appIdx, slot, exc, stored, tmp,
                   fetchLog, faults, resp, log, outPath, writers, disk, call,
                   boxes, served>>

InitTemplates ==
    /\ inbox = <<>>
    /\ pc = "template"
    /\ req = <<>>
    /\ genCalled = FALSE
    /\ deck = <<>>
    /\ appIdx = 1
    /\ slot = 1
    /\ exc = NoExc
    /\ stored = <<>>
    /\ tmp = {}
    /\ fetchLog = <<>>
    /\ faults = 0
    /\ resp = NoResp
    /\ log = <<>>
    /\ outPath = OutputPath
    /\ writers = <<>>
    /\ disk = <<>>
    /\ call \in Calls
    /\ boxes = <<>>
    /\ lines = <<>>
    /\ served = <<>>

NextTemplates ==
    \/ ComparisonSlide
    \/ SummarySlide
    \/ ContentSlide

SpecTemplates == InitTemplates /\ [][NextTemplates]_vars

\* ---------------------------------------------------------------- claims
Last(q) == q[Len(q)]

\* C1: the deck handed to the writer is Title, then per app in input order
\* Header, Overview, UX analysis, Review analysis, then Summary iff the
\* summary key is present, then Ending: 1 + 4N + (0 or 1) + 1 slides, all
\* of them fully populated.
C1_AppBlock == <<"Header", "Overview", "UX", "Review">>

C1_Expected(v) ==
    LET n == Len(v.apps)
        perApp == [i \in 1..(4 * n) |->
                      <<C1_AppBlock[((i - 1) % 4) + 1], v.apps[((i - 1) \div 4) + 1].name>>]
        summary == IF "summary" \in v.keys THEN <<<<"Summary", "">>>> ELSE <<>>
    IN  <<<<"Title", "">>>> \o perApp \o summary \o <<<<"Ending", "">>>>

C1_DeckSequence ==
    pc = "save" =>
        /\ [i \in 1..Len(deck) |-> <<deck[i].kind, deck[i].app>>] = C1_Expected(Report)
        /\ Len(deck) = 1 + 4 * Len(Report.apps)
                         + (IF "summary" \in Report.keys THEN 1 ELSE 0) + 1
        /\ \A i \in 1..Len(deck) : deck[i].complete

C1_Witness ==
    /\ pc = "save"
    /\ Len(Report.apps) = 2
    /\ Report.apps[1].name # Report.apps[2].name
    /\ "summary" \in Report.keys
    /\ Len(deck) = 11

\* C2: for an input JSON object that lacks title, date or apps, generate
\* raises ValueError naming exactly the missing fields, no slide is
\* constructed and the file under the output path is not touched.
C2_Lacks(u) ==
    /\ u.enc = "utf8"
    /\ u.syntax = "json"
    /\ u.value.shape = "object"
    /\ ~({"title", "date", "apps"} \subseteq u.value.keys)

C2_MissingFieldRejected ==
    [][(req' # <<>> /\ C2_Lacks(req'[1])) =>
          /\ stored' = stored
          /\ deck' = <<>>
          /\ pc' \in {"idle", "generate", "respond"}
          /\ (pc = "generate" =>
                /\ pc' = "respond"
                /\ exc'.kind = "ValueError"
                /\ exc'.fields = {"title", "date", "apps"} \ req[1].value.keys)]_vars

C2_Witness ==
    /\ pc = "respond"
    /\ genCalled
    /\ exc.kind = "ValueError"
    /\ exc.fields = {"date", "apps"}
    /\ deck = <<>>
    /\ stored = <<OldFile>>

\* C3 (as claimed): an upload whose bytes are not valid JSON is answered
\* with 400 and a detail containing "Invalid JSON file", and generate is
\* not invoked.
C3_NotJson(u) == u.enc = "invalid" \/ u.syntax = "garbage"

C3_InvalidJsonIs400 ==
    (pc = "idle" /\ req # <<>> /\ resp.route = "generate-ppt" /\ C3_NotJson(req[1])) =>
        /\ resp.status = 400
        /\ Contains(resp.detail, "Invalid JSON file")
        /\ ~genCalled

\* C4 (as claimed): a download of a file name with nothing stored under it
\* is answered with 404 and a detail containing "File not found".
C4_AbsentIs404 ==
    (resp.route = "download" /\ ~Exists(resp.arg)) =>
        /\ resp.status = 404
        /\ Contains(resp.detail, "File not found")

\* C5 (as claimed): a well-formed upload with title, date and apps, each
\* app supplying every field but the optional logo and reviews.count, is
\* answered with 200 and a file_path (no environment failure occurring).
C5_WellFormed(u) ==
    /\ u.enc = "utf8"
    /\ u.syntax = "json"
    /\ u.value.shape = "object"
    /\ {"title", "date", "apps"} \subseteq u.value.keys
    /\ u.value.appsShape = "list"
    /\ u.value.summaryOk

C5_WellFormedIs200 ==
    (pc = "idle" /\ req # <<>> /\ resp.route = "generate-ppt" /\ faults = 0
        /\ C5_WellFormed(req[1])) =>
        /\ resp.status = 200
        /\ resp.file_path # ""

\* C6: a logo fetch that ends in a network error, an HTTP error status, an
\* undecodable image or an encoding failure still yields the slide of the
\* template that made the fetch, fully populated and in the no-image
\* layout, and generate goes on to its next step without an exception.
C6_FetchFailureDegrades ==
    [][(Len(fetchLog') = Len(fetchLog) + 1
          /\ Last(fetchLog').outcome \in {"neterr", "httperr", "undecodable", "encfail"}) =>
          /\ Len(deck') = Len(deck) + 1
          /\ Last(fetchLog').slide = Len(deck')
          /\ Last(deck').kind \in {"Header", "Overview", "UX", "Review"}
          /\ Last(deck').app = Report.apps[appIdx].name
          /\ Last(deck').layout = "noimage"
          /\ Last(deck').complete
          /\ exc' = NoExc
          /\ pc' \in {"content", "apps"}]_vars

\* A render that reached the writer although one of its fetches failed.
C6_Witness ==
    /\ pc = "save"
    /\ \E i \in 1..Len(fetchLog) :
          /\ fetchLog[i].outcome = "undecodable"
          /\ deck[fetchLog[i].slide].kind = "Header"
          /\ deck[fetchLog[i].slide].layout = "noimage"

\* C7: once a slide step has failed, generate never reaches the save step
\* and the stored file is left alone; the stored file changes only in the
\* save step, which starts with every slide of the deck appended and fully
\* populated.
C7_StepFailed == exc # NoExc \/ \E i \in 1..Len(deck) : ~deck[i].complete

C7_NoPartialDeckSaved ==
    [][/\ (C7_StepFailed => (pc' # "save" /\ stored' = stored))
       /\ (stored' # stored =>
              /\ pc = "save"
              /\ Len(deck) = 2 + 4 * Len(Report.apps)
                               + (IF "summary" \in Report.keys THEN 1 ELSE 0)
              /\ Last(deck).kind = "Ending"
              /\ \A i \in 1..Len(deck) : deck[i].complete)]_vars

\* The last template failed, after the slides before it had been appended.
C7_Witness ==
    /\ pc = "respond"
    /\ exc.msg = "Failed to add ending slide"
    /\ Len(deck) = 6
    /\ ~Last(deck).complete
    /\ stored = <<OldFile>>

\* What made generate raise, read off the state it raised in.
C8_PersistFailed ==
    /\ pc = "respond"
    /\ exc # NoExc
    /\ deck # <<>>
    /\ Last(deck).kind = "Ending"
    /\ Last(deck).complete

C8_ValidationFailed ==
    /\ pc = "respond"
    /\ exc # NoExc
    /\ \/ req[1].enc # "utf8"
       \/ ~({"title", "date", "apps"} \subseteq Report.keys)

C8_RenderFailed ==
    /\ pc = "respond"
    /\ exc # NoExc
    /\ ~C8_ValidationFailed
    /\ ~C8_PersistFailed

C9_Rejected(u) ==
    /\ u.enc = "utf8"
    /\ \/ u.syntax = "garbage"
       \/ /\ u.value.shape = "object"
          /\ ~({"title", "date", "apps"} \subseteq u.value.keys)

C9_RejectedIs4xx ==
    (pc = "idle" /\ req # <<>> /\ resp.route = "generate-ppt" /\ faults = 0
        /\ C9_Rejected(req[1])) =>
        (resp.status >= 400 /\ resp.status < 500)

\* C10 (as claimed): when a slide template has returned, no temporary
\* directory or file of a logo fetch is left on disk.
C10_NoTempLeft == tmp = {}

C12_SameInputSameDeck ==
    \A i, j \in 1..Len(log) :
        (/\ log[i].status = 200
         /\ log[j].status = 200
         /\ log[i].upload = log[j].upload)
        => log[i].doc = log[j].doc

\* C12 (amended): two requests that uploaded identical bytes and whose logo
\* fetches delivered the same images produced identical documents, whatever
\* the earlier request left behind.
C12_SameInputSameFetchesSameDeck ==
    \A i, j \in 1..Len(log) :
        (/\ log[i].status = 200
         /\ log[j].status = 200
         /\ log[i].upload = log[j].upload
         /\ log[i].fetched = log[j].fetched)
        => log[i].doc = log[j].doc

C12_Witness ==
    /\ Len(log) = 2
    /\ log[1].status = 200
    /\ log[2].status = 200
    /\ log[1].upload = ReportA
    /\ log[2].upload = ReportA
    /\ log[1].fetched = log[2].fetched
    /\ Len(log[1].fetched) = 4
    /\ log[1].doc = log[2].doc
    /\ log[2].doc = stored[1].deck

\* C13: whatever the kind of the destination path (directory present,
\* directories missing, bare file name), a render whose slides were all
\* added with no failure of the environment returns with the complete
\* document stored at the destination.
C13_AnyPathSaved ==
    (/\ pc = "respond"
     /\ faults = 0
     /\ deck # <<>>
     /\ Last(deck).kind = "Ending")
    => (/\ exc = NoExc
        /\ stored = <<File(deck, "full")>>)

\* C14: once two saves to the same output file that ran side by side have
\* both completed, the file is exactly the complete document of one of them.
C14_OneCompleteDocument ==
    (\A w \in Writers : writers[w].pc = "done")
    => \E w \in Writers : disk = Document(w)

\* C15: in the Comparison and Summary templates the left edge of box i
\* (counted from 0) is (c - (n*w + (n-1)*g))/2 + i*(w+g), and the margin left
\* of the first box equals the margin right of the last.
C15_Gap == IF call.template = "Summary" THEN 640080 ELSE 457200

C15_BoxLeftEdges ==
    (pc = "returned" /\ call.template \in {"Comparison", "Summary"})
    => LET n == Len(boxes)
           w == 4114800
           g == C15_Gap
           c == call.slide_width
       IN  /\ n = IF call.template = "Summary" THEN 3 ELSE Len(call.apps_data)
           /\ \A k \in 1..n :
                /\ boxes[k].width = w
                /\ 2 * boxes[k].left = (c - (n * w + (n - 1) * g)) + 2 * (k - 1) * (w + g)
           /\ n > 0 => boxes[1].left = c - (boxes[n].left + w)

C15_Witness ==
    /\ pc = "returned"
    /\ call.template = "Comparison"
    /\ Len(boxes) = 3
    /\ boxes[1].left = 685800
    /\ boxes[3].left = 9829800

\* C16: the paragraphs the Content template adds are, per key in mapping
\* order, a bold header "key:" followed by one bulleted level-1 line per
\* list element in order, or one bulleted "sub_key: sub_value" line per
\* entry of a nested mapping in order, or exactly one bulleted line for any
\* other value; their number is the number of keys plus these counts.
C16_Count(value) == IF value.type = "scalar" THEN 1 ELSE Len(value.items)

RECURSIVE C16_Offset(_, _)
C16_Offset(content, k) ==
    IF k = 1 THEN 0
    ELSE C16_Offset(content, k - 1) + 1 + C16_Count(content[k - 1].value)

C16_ContentLines ==
    (pc = "returned" /\ call.template = "Content")
    => LET content == call.content
           n == Len(content)
       IN  /\ Len(lines) = C16_Offset(content, n + 1)
           /\ \A k \in 1..n :
                LET at == C16_Offset(content, k)
                    value == content[k].value
                IN  /\ lines[at + 1] = Line(FALSE, <<content[k].key>>, <<>>, TRUE, 0)
                    /\ \A m \in 1..C16_Count(value) :
                         /\ lines[at + 1 + m].bullet
                         /\ ~lines[at + 1 + m].bold
                         /\ lines[at + 1 + m].level = 1
                         /\ lines[at + 1 + m].text = <<value.items[m].val>>
                         /\ lines[at + 1 + m].label =
                                IF value.type = "dict" THEN value.items[m].key
                                ELSE <<>>

C16_Witness ==
    /\ pc = "returned"
    /\ call.template = "Content"
    /\ Len(call.content) = 2
    /\ call.content[1].value.type = "dict"
    /\ Len(call.content[1].value.items) = 2
    /\ call.content[2].value.type = "list"
    /\ call.content[2].value.items = <<>>
    /\ Len(lines) = 4

\* C17: for every number N >= 1 of app summaries the boxes of the
\* Comparison template have equal width and lie within the canvas: the
\* left edge of the first is >= 0, the right edge of the last <= the width.
C17_BoxesWithinCanvas ==
    (pc = "returned" /\ call.template = "Comparison" /\ Len(call.apps_data) >= 1)
    => /\ Len(boxes) = Len(call.apps_data)
       /\ \A i, j \in 1..Len(boxes) : boxes[i].width = boxes[j].width
       /\ boxes[1].left >= 0
       /\ boxes[Len(boxes)].left + boxes[Len(boxes)].width <= call.slide_width

\* C18: a client that received 200 to its POST and then downloads the
\* file_path named in that response is served the document rendered from
\* its own upload, whatever other requests were handled in between.
C18_OwnDocumentServed ==
    (/\ served # <<>>
     /\ served[1].request > 0
     /\ faults = 0)
    => served[1].file = File(log[served[1].request].doc, "full")

\* C19: between requests the file under the output name is either what
\* was there before any request succeeded (nothing, or the document an
\* earlier run of the service left) or the complete document of the most
\* recent request answered 200: a request answered 400 or 500 left it as
\* it was.
C19_Succeeded == {i \in 1..Len(log) : log[i].status = 200}
C19_MostRecent == CHOOSE i \in C19_Succeeded : \A j \in C19_Succeeded : j <= i

C19_StoredIsLastSuccess ==
    pc = "idle"
    => IF C19_Succeeded = {}
       THEN stored \in {<<>>, <<OldFile>>}
       ELSE stored = <<File(log[C19_MostRecent].doc, "full")>>

\* C20 (as claimed): a JSON object holding title, date and apps passes the
\* validation whatever its values are, and every defect of those values
\* (apps not a list, an app lacking a nested field, a summary of the wrong
\* shape) makes generate raise RuntimeError.
C20_Passes(u) == LoadInput(u) /\ RequiredFields \subseteq u.value.keys

C20_Trips(v) ==
    \/ v.appsShape = "null"
    \/ \E i \in 1..Len(v.apps) : ~v.apps[i].count
    \/ ~v.summaryOk

C20_Defect(v) == C20_Trips(v) \/ v.appsShape # "list"

C20_EveryDefectReported ==
    (pc = "respond" /\ genCalled /\ C20_Passes(req[1]))
    => /\ exc.kind # "ValueError"
       /\ C20_Defect(Report) => exc.kind = "RuntimeError"

\* C20 (amended): such an object passes the validation whatever its values
\* are; a defect that makes a later step fail (apps null, an app lacking a
\* nested field, a summary of the wrong shape) makes generate raise
\* RuntimeError, never ValueError; a defect no step trips over (apps an
\* object without keys) is not reported and the render succeeds.
C20_TrippingDefectReported ==
    (pc = "respond" /\ genCalled /\ C20_Passes(req[1]))
    => /\ exc.kind # "ValueError"
       /\ C20_Trips(Report) => exc.kind = "RuntimeError"
       /\ (~C20_Trips(Report) /\ faults = 0) => exc = NoExc

C20_Witness ==
    /\ pc = "respond"
    /\ genCalled
    /\ C20_Passes(req[1])
    /\ Report.appsShape = "null"
    /\ exc = RuntimeError("Failed to process app data")
    /\ Len(deck) = 1

\* C21: within one render the logo fetches are made one per slide in
\* slide order; for an app with a logo URL (and a name) whose four slides
\* were added there are exactly four fetches, one for the Header slide and
\* one for each Content slide, and each of these slides has the image layout
\* iff its own fetch delivered the image; for an app without a logo URL
\* there is none.
C21_Block(k) == {4 * k - 2, 4 * k - 1, 4 * k, 4 * k + 1}
C21_Fetched(id) == \E i \in 1..Len(fetchLog) : fetchLog[i].slide = id

C21_OwnLayout(e) ==
    deck[e.slide].layout =
        IF (IF deck[e.slide].kind = "Header" THEN e.outcome = "ok" ELSE e.embedded)
        THEN "image" ELSE "noimage"

\* The slide numbers of the fetches increase strictly, so no slide has two
\* fetches: one fetch for each of the four slides is exactly four.
C21_FourFetchesPerApp ==
    /\ \A i \in 1..(Len(fetchLog) - 1) : fetchLog[i].slide < fetchLog[i + 1].slide
    /\ \A i \in 1..Len(fetchLog) :
         /\ fetchLog[i].slide <= Len(deck)
         /\ C21_OwnLayout(fetchLog[i])
    /\ \A k \in 1..(appIdx - 1) :
         LET app == Report.apps[k]
             hasLogo == Truthy(app.logo) /\ Truthy(app.name)
         IN  \A id \in C21_Block(k) :
                /\ deck[id].app = app.name
                /\ C21_Fetched(id) <=> hasLogo
                /\ ~hasLogo => deck[id].layout = "noimage"

C21_Witness ==
    /\ pc = "apps"
    /\ appIdx = 3
    /\ Truthy(Report.apps[1].logo)
    /\ ~Truthy(Report.apps[2].logo)
    /\ Len(fetchLog) = 4
    /\ [i \in 1..4 |-> fetchLog[i].slide] = <<2, 3, 4, 5>>
    /\ fetchLog[1].outcome = "ok"
    /\ fetchLog[3].outcome = "neterr"
    /\ deck[2].layout = "image"
    /\ deck[4].layout = "noimage"
    /\ deck[5].layout = "image"

====
